---- MODULE Spec2Model ----
(***************************************************************************)
(* A model of the two-party DCF / DDCF function secret sharing scheme of   *)
(* fss2020.go and ddcf.go.                                                  *)
(*                                                                         *)
(* Scaling.  The repository runs with lambda = 128 bits, 64-bit Go ints    *)
(* and AES-CTR as the length-doubling PRG.  The model keeps the code's     *)
(* arithmetic and byte layout and scales the widths: the security          *)
(* parameter is one byte (a few bytes for the conversion map), a Go int is *)
(* IntBits wide, and the AES-CTR keystream is one of a small family of     *)
(* deterministic byte streams (KeyStream), since correctness must not      *)
(* depend on which deterministic PRG is used.                              *)
(*                                                                         *)
(* Pointers.  Byte slices, *big.Int values and the key structures live in  *)
(* `heap`, a function from addresses to objects; a big.Int operation names *)
(* its receiver, so aliasing and in-place updates are visible.             *)
(***************************************************************************)
EXTENDS Integers, Sequences, FiniteSets, TLC

VARIABLES
  scheme,   \* the DCFScheme in use: lambdaInBits and groupOrder
  cipher,   \* which member of the keystream family stands for AES-CTR
  heap,     \* the objects reachable from the caller's keys
  keys,     \* the caller's key pointers: key0, key1 and the DDCF keys
  gen,      \* the last key generation call: its arguments and its outcome
  ev,       \* per evaluator, the locals or the outcome of its Evaluate call
  mut,      \* the last write the caller made into a key
  conv      \* the last mapToGroupElement call: its input and its outcome

vars == <<scheme, cipher, heap, keys, gen, ev, mut, conv>>

(***************************************************************************)
(* Bounds of the model.                                                    *)
(***************************************************************************)
\* deepest domain width n for which keys are generated and evaluated
MaxN == 2
\* group orders 2^k, k \in 0..MaxK, of the schemes that generate keys
MaxK == 2
\* beta, beta0, beta1 are -MaxBeta, 0 or MaxBeta
MaxBeta == 1
\* every byte rand.Read returns is 0 or MaxRand
MaxRand == 1
\* the keystreams are the members 0 and MaxCipher of the family
MaxCipher == 1
\* width of a Go int in the model (64 in the repository)
IntBits == 4
\* the conversion map is checked for lambda = 8, 16, .., 8 * MaxLambdaBytes
MaxLambdaBytes == 2
\* how many writes into a key the caller makes
MaxMut == 1

(***************************************************************************)
(* Program constants (fss2020.go:15-19).                                   *)
(***************************************************************************)
partyNum == 2
left == 0
right == 1

Nil == 0
NoErr == "nil"

(***************************************************************************)
(* Machine integers and bit operations.                                    *)
(***************************************************************************)
IntMin == -(2^(IntBits - 1))
IntMax == 2^(IntBits - 1) - 1
IntRange == IntMin..IntMax

\* a Go int keeps the low IntBits bits, two's complement
WrapInt(v) == ((v - IntMin) % 2^IntBits) + IntMin

\* 1 << s on a Go int: a shift of the width or more gives 0
Shl1(s) == IF s >= IntBits THEN 0 ELSE WrapInt(2^s)

\* (v >> s) & 1 on a nonnegative Go int
BitAt(v, s) == (v \div 2^s) % 2

\* Go's % on ints truncates toward zero: the remainder has the dividend's sign
GoRem(a, b) ==
  LET m == IF b < 0 THEN -b ELSE b
  IN IF a >= 0 THEN a % m ELSE -((-a) % m)

RECURSIVE XorBits(_, _, _)
XorBits(a, b, w) ==
  IF w = 0 THEN 0
  ELSE (((a % 2) + (b % 2)) % 2) + 2 * XorBits(a \div 2, b \div 2, w - 1)

\* a ^ b on bytes
XorByte(a, b) == XorBits(a, b, 8)

XorBytes(s, t) == [j \in 1..Len(s) |-> XorByte(s[j], t[j])]

RECURSIVE AndNat(_, _)
AndNat(a, b) ==
  IF a = 0 \/ b = 0 THEN 0
  ELSE (a % 2) * (b % 2) + 2 * AndNat(a \div 2, b \div 2)

\* big.Int.BitLen of a positive integer
RECURSIVE BitLen(_)
BitLen(v) == IF v = 0 THEN 0 ELSE 1 + BitLen(v \div 2)

\* big.Int.SetBytes: a big-endian unsigned integer
RECURSIVE SetBytes(_)
SetBytes(b) ==
  IF Len(b) = 0 THEN 0
  ELSE 256 * SetBytes(SubSeq(b, 1, Len(b) - 1)) + b[Len(b)]

\* big.Int.Mod is Euclidean: for m > 0 the result is in [0, m)
BigMod(a, m) == a % m

(***************************************************************************)
(* The scheme (fss2020.go:21-31).                                          *)
(***************************************************************************)
\* NewDCFScheme stores its arguments and validates nothing
NewDCFScheme(lambdaInBits, groupOrder) ==
  [lambdaInBits |-> lambdaInBits, groupOrder |-> groupOrder]

(***************************************************************************)
(* The PRG (fss2020.go:354-391).  aes.NewCipher(seed) and the CTR stream   *)
(* over a zero IV are a deterministic function of the seed; KeyStream is   *)
(* byte j (from 0) of that stream for member c of the family.              *)
(***************************************************************************)
KeyStream(c, seed, j) ==
  LET s == SetBytes(seed)
  IN ((2 * c + 37) * (6 * s + j + 1) * (s + j + c + 1) + (s \div 2) + c * j) % 251

\* XORKeyStream(output, output) on a zero buffer leaves the keystream
XORKeyStream(c, seed, outputSize) == [j \in 1..outputSize |-> KeyStream(c, seed, j - 1)]

\* the node cut out of the PRG output, fss2020.go:375-388; Slice(a, b) is
\* output[a:b] of the code, offsets from 0
NodeOf(output, lambdaInBytes) ==
  LET Slice(a, b) == SubSeq(output, a + 1, b)
  IN [err |-> NoErr,
      Seeds |-> << Slice(0, lambdaInBytes),
                   Slice(2 * lambdaInBytes + 1, 3 * lambdaInBytes + 1) >>,
      Values |-> << Slice(lambdaInBytes, 2 * lambdaInBytes),
                    Slice(3 * lambdaInBytes + 1, 4 * lambdaInBytes + 1) >>,
      TBits |-> << output[2 * lambdaInBytes + 1] % 2,
                   output[4 * lambdaInBytes + 2] % 2 >>]

\* expandDCFNode: s_L || v_L || t_L || s_R || v_R || t_R <- PRG(seed)
expandDCFNode(d, c, seed) ==
  LET lambdaInBytes == d.lambdaInBits \div 8
      outputSize == (lambdaInBytes * 2 + 1) * 2
  IN IF Len(seed) # lambdaInBytes
     THEN [err |-> "InvalidLength"]
     ELSE NodeOf(XORKeyStream(c, seed, outputSize), lambdaInBytes)

(***************************************************************************)
(* Convert (fss2020.go:394-429).                                           *)
(***************************************************************************)
isPowerOfTwo(n) == IF n <= 0 THEN FALSE ELSE AndNat(n, n - 1) = 0

\* the low k bits of the bytes read, not the top ones
ConvertBitsLowEnd(d, input) ==
  LET k == BitLen(d.groupOrder) - 1
      requiredBytes == (k + 7) \div 8
  IN IF k > d.lambdaInBits THEN [err |-> "UnsupportedGroup", val |-> Nil]
     ELSE IF requiredBytes > Len(input) THEN [err |-> "InternalError", val |-> Nil]
     ELSE [err |-> NoErr,
           val |-> SetBytes(SubSeq(input, 1, requiredBytes)) % 2^k]

\* the body of mapToGroupElement after its two validity checks
ConvertBits(d, input) ==
  LET k == BitLen(d.groupOrder) - 1
      requiredBytes == (k + 7) \div 8
      bitsToShift == requiredBytes * 8 - k
  IN IF k > d.lambdaInBits THEN [err |-> "UnsupportedGroup", val |-> Nil]
     ELSE IF requiredBytes > Len(input) THEN [err |-> "InternalError", val |-> Nil]
     ELSE [err |-> NoErr,
           val |-> SetBytes(SubSeq(input, 1, requiredBytes)) \div 2^bitsToShift]

mapToGroupElement(d, input) ==
  IF Len(input) # d.lambdaInBits \div 8 THEN [err |-> "InvalidLength", val |-> Nil]
  ELSE IF ~isPowerOfTwo(d.groupOrder) THEN [err |-> "UnsupportedGroup", val |-> Nil]
  ELSE ConvertBits(d, input)

(***************************************************************************)
(* The heap.  An address is an index of `heap`; address Nil is no object.  *)
(* Objects are byte slices (sequences of bytes), big.Int values            *)
(* (integers), correction words, slices of pointers and keys.              *)
(***************************************************************************)
\* the address the next allocation gets
NewAddr(h) == Len(h) + 1

\* z.Add(x, y), z.Sub(x, y), z.Neg(x), z.Mod(x, m): the receiver z is overwritten
BigAdd(h, z, x, y) == [h EXCEPT ![z] = h[x] + h[y]]
BigNeg(h, z, x) == [h EXCEPT ![z] = -h[x]]
BigModAt(h, z, x, m) == [h EXCEPT ![z] = BigMod(h[x], m)]

(***************************************************************************)
(* DCF key generation (fss2020.go:33-225).                                 *)
(***************************************************************************)
\* v_CW, fss2020.go:105-122: (-1)^t1 * (Convert(v1Lose) - Convert(v0Lose) - V_alpha),
\* plus (-1)^t1 * beta when the lose side is the left one
ValueCWBetaOnRight(v0Lose, v1Lose, valueAlpha, isParty1Active, lose, beta) ==
  LET diff == (v1Lose - v0Lose) - valueAlpha
      signed == IF isParty1Active THEN -diff ELSE diff
      betaCorrected == IF isParty1Active THEN -beta ELSE beta
  IN IF lose = right THEN signed + betaCorrected ELSE signed

ValueCW(v0Lose, v1Lose, valueAlpha, isParty1Active, lose, beta) ==
  LET diff == (v1Lose - v0Lose) - valueAlpha
      signed == IF isParty1Active THEN -diff ELSE diff
      betaCorrected == IF isParty1Active THEN -beta ELSE beta
  IN IF lose = left THEN signed + betaCorrected ELSE signed

\* t_CW[L] and t_CW[R], fss2020.go:147-149
TCWsWithoutFlip(t0, t1, alphaBit) ==
  << (t0[left + 1] + t1[left + 1] + alphaBit) % 2,
     (t0[right + 1] + t1[right + 1] + alphaBit) % 2 >>

TCWs(t0, t1, alphaBit) ==
  << (t0[left + 1] + t1[left + 1] + alphaBit + 1) % 2,
     (t0[right + 1] + t1[right + 1] + alphaBit) % 2 >>

\* one iteration of the level loop, fss2020.go:64-176.  G carries the
\* loop's variables: seeds and ts per party, valueAlpha, correctionWords.
\* The iteration is read from the bottom: Expanded has the two nodes,
\* Converted the four group elements, Corrected the correction word.
GenLevel(d, c, n, alpha, beta, G) ==
  LET i == G.i
      alphaBit == BitAt(alpha, n - i - 1)
      isPartyActive == << G.ts[1][i + 1] = 1, G.ts[2][i + 1] = 1 >>
      keep == IF alphaBit = 0 THEN left ELSE right
      lose == IF alphaBit = 0 THEN right ELSE left
      \* fss2020.go:125-175
      Corrected(nodes, seedCW, valueCW, tCWs, v0Keep, v1Keep) ==
        LET valueCWCorrected == IF isPartyActive[2] THEN -valueCW ELSE valueCW
            valueAlpha == ((G.valueAlpha - v1Keep) + v0Keep) + valueCWCorrected
            nextSeed(party) ==
              IF isPartyActive[party]
              THEN XorBytes(nodes[party].Seeds[keep + 1], seedCW)
              ELSE nodes[party].Seeds[keep + 1]
            nextT(party) ==
              IF isPartyActive[party]
              THEN (nodes[party].TBits[keep + 1] + tCWs[keep + 1]) % 2
              ELSE nodes[party].TBits[keep + 1]
        IN [i |-> i + 1,
            seeds |-> << Append(G.seeds[1], nextSeed(1)), Append(G.seeds[2], nextSeed(2)) >>,
            ts |-> << Append(G.ts[1], nextT(1)), Append(G.ts[2], nextT(2)) >>,
            valueAlpha |-> valueAlpha,
            correctionWords |->
              Append(G.correctionWords,
                     [Seed |-> seedCW, Value |-> valueCW, TBits |-> tCWs]),
            err |-> NoErr]
      \* fss2020.go:89-122 and 147-149
      Converted(nodes, v0LoseConverted, v1LoseConverted, v0KeepConverted, v1KeepConverted) ==
        IF v0LoseConverted.err # NoErr THEN [G EXCEPT !.err = v0LoseConverted.err]
        ELSE IF v1LoseConverted.err # NoErr THEN [G EXCEPT !.err = v1LoseConverted.err]
        ELSE IF v0KeepConverted.err # NoErr THEN [G EXCEPT !.err = v0KeepConverted.err]
        ELSE IF v1KeepConverted.err # NoErr THEN [G EXCEPT !.err = v1KeepConverted.err]
        ELSE Corrected(nodes,
                       XorBytes(nodes[1].Seeds[lose + 1], nodes[2].Seeds[lose + 1]),
                       ValueCW(v0LoseConverted.val, v1LoseConverted.val, G.valueAlpha,
                               isPartyActive[2], lose, beta),
                       TCWs(nodes[1].TBits, nodes[2].TBits, alphaBit),
                       v0KeepConverted.val, v1KeepConverted.val)
      \* fss2020.go:68-86 and 94-143, the conversions
      Expanded(nodes) ==
        IF nodes[1].err # NoErr THEN [G EXCEPT !.err = nodes[1].err]
        ELSE IF nodes[2].err # NoErr THEN [G EXCEPT !.err = nodes[2].err]
        ELSE Converted(nodes,
                       mapToGroupElement(d, nodes[1].Values[lose + 1]),
                       mapToGroupElement(d, nodes[2].Values[lose + 1]),
                       mapToGroupElement(d, nodes[1].Values[keep + 1]),
                       mapToGroupElement(d, nodes[2].Values[keep + 1]))
  IN Expanded(<< expandDCFNode(d, c, G.seeds[1][i + 1]),
                 expandDCFNode(d, c, G.seeds[2][i + 1]) >>)

RECURSIVE GenLoop(_, _, _, _, _, _)
GenLoop(d, c, n, alpha, beta, G) ==
  IF G.i >= n \/ G.err # NoErr THEN G
  ELSE GenLoop(d, c, n, alpha, beta, GenLevel(d, c, n, alpha, beta, G))

\* the final correction value, fss2020.go:178-198
FinalCW(d, n, G) ==
  LET isParty1Active == G.ts[2][n + 1] = 1
      Converted(s0nConverted, s1nConverted) ==
        IF s0nConverted.err # NoErr THEN [err |-> s0nConverted.err, val |-> Nil]
        ELSE IF s1nConverted.err # NoErr THEN [err |-> s1nConverted.err, val |-> Nil]
        ELSE LET valueCW == (s1nConverted.val - s0nConverted.val) - G.valueAlpha
             IN [err |-> NoErr, val |-> IF isParty1Active THEN -valueCW ELSE valueCW]
  IN Converted(mapToGroupElement(d, G.seeds[1][n + 1]),
               mapToGroupElement(d, G.seeds[2][n + 1]))

\* the objects of one correction word (fss2020.go:89, 105, 152): a seed
\* slice, a big.Int and the word pointing at both
AllocCW(r, cw) ==
  LET a == NewAddr(r.h)
  IN [h |-> r.h \o << cw.Seed, cw.Value,
                      [Seed |-> a, Value |-> a + 1, TBits |-> cw.TBits] >>,
      ptrs |-> Append(r.ptrs, a + 2)]

\* the objects the level loop allocated for correctionWords
RECURSIVE AllocCWs(_, _)
AllocCWs(h, cws) ==
  IF Len(cws) = 0 THEN [h |-> h, ptrs |-> << >>]
  ELSE AllocCW(AllocCWs(h, SubSeq(cws, 1, Len(cws) - 1)), cws[Len(cws)])

\* a copy that makes a new word and keeps pointing at the first key's big.Int
CopyCWSharingValue(r, ptr) ==
  LET cw == r.h[ptr]
      a == NewAddr(r.h)
  IN [h |-> r.h \o << r.h[cw.Seed],
                      [Seed |-> a, Value |-> cw.Value, TBits |-> cw.TBits] >>,
      ptrs |-> Append(r.ptrs, a + 1)]

\* fss2020.go:209-214: a new word with a copy of the seed bytes and a new
\* big.Int set to the value
CopyCW(r, ptr) ==
  LET cw == r.h[ptr]
      a == NewAddr(r.h)
  IN [h |-> r.h \o << r.h[cw.Seed], r.h[cw.Value],
                      [Seed |-> a, Value |-> a + 1, TBits |-> cw.TBits] >>,
      ptrs |-> Append(r.ptrs, a + 2)]

\* correctionWordsForParty1, fss2020.go:208-215
RECURSIVE CopyCWs(_, _)
CopyCWs(h, ptrs) ==
  IF Len(ptrs) = 0 THEN [h |-> h, ptrs |-> << >>]
  ELSE CopyCW(CopyCWs(h, SubSeq(ptrs, 1, Len(ptrs) - 1)), ptrs[Len(ptrs)])

\* key0 and key1, fss2020.go:200-224: r0 has the words of key0, r1 the
\* copies for key1; each key adds its slice of words, FinalValue and itself
BuildKeys(seed0, seed1, cws, valueCW) ==
  LET Key1(r1, key0) ==
        LET a1 == NewAddr(r1.h)
        IN [err |-> NoErr,
            heap |-> r1.h \o << r1.ptrs, valueCW,
                                [Party |-> 1, Seed |-> 2, CWs |-> a1, FinalValue |-> a1 + 1] >>,
            key0 |-> key0, key1 |-> a1 + 2]
      Key0(r0) ==
        LET a0 == NewAddr(r0.h)
        IN Key1(CopyCWs(r0.h \o << r0.ptrs, valueCW,
                                   [Party |-> 0, Seed |-> 1, CWs |-> a0, FinalValue |-> a0 + 1] >>,
                        r0.ptrs),
                a0 + 2)
  IN Key0(AllocCWs(<< seed0, seed1 >>, cws))

GenFail(e) == [err |-> e, heap |-> << >>, key0 |-> Nil, key1 |-> Nil]

\* GenerateKeys(n, alpha, beta) with rnd the two seeds rand.Read returned
GenerateKeys(d, c, n, alpha, beta, rnd) ==
  LET threshold == Shl1(n - 1)
      G0 == [i |-> 0,
             seeds |-> << << rnd[1] >>, << rnd[2] >> >>,
             ts |-> << << 0 >>, << 1 >> >>,
             valueAlpha |-> 0,
             correctionWords |-> << >>,
             err |-> NoErr]
      Finished(G, f) ==
        IF f.err # NoErr THEN GenFail(f.err)
        ELSE BuildKeys(G.seeds[1][1], G.seeds[2][1], G.correctionWords, f.val)
      Looped(G) ==
        IF G.err # NoErr THEN GenFail(G.err) ELSE Finished(G, FinalCW(d, n, G))
  IN IF alpha >= threshold \/ alpha < -threshold THEN GenFail("AlphaOutOfRange")
     ELSE Looped(GenLoop(d, c, n, WrapInt(alpha + threshold), beta, G0))

(***************************************************************************)
(* DCF evaluation (fss2020.go:227-334).  L holds the locals of one call:   *)
(* the key pointer, x, n, the loop index i, tbits, seeds (pointers), value *)
(* (a pointer) and tmp, the objects the call itself allocated.  A step     *)
(* works on H, the shared heap followed by the call's own objects, and     *)
(* returns the new H and L.  seedVals records the bytes of seeds[0..i].    *)
(***************************************************************************)
Idle ==
  [pc |-> "idle", key |-> Nil, dkey |-> Nil, xin |-> 0, x |-> 0, n |-> 0, i |-> 0,
   tbits |-> << >>, seeds |-> << >>, seedVals |-> << >>, value |-> Nil,
   tmp |-> << >>, err |-> NoErr, y |-> 0, yNil |-> TRUE]

\* return nil, err
EvalFail(H, L, e) == [H |-> H, L |-> [L EXCEPT !.pc = "done", !.err = e, !.y = 0, !.yNil = TRUE]]

\* fss2020.go:227-242: the range check, the remapping and the initial locals
EvalBegin(H, key, dkey, xin) ==
  LET n == Len(H[H[key].CWs])
      threshold == Shl1(n - 1)
      L0 == [Idle EXCEPT !.key = key, !.dkey = dkey, !.xin = xin, !.n = n]
  IN IF xin >= threshold \/ xin < -threshold THEN EvalFail(H, L0, "XOutOfRange")
     ELSE [H |-> Append(H, 0),
           L |-> [L0 EXCEPT !.pc = "loop",
                            !.x = WrapInt(xin + threshold),
                            !.tbits = << H[key].Party >>,
                            !.seeds = << H[key].Seed >>,
                            !.seedVals = << H[H[key].Seed] >>,
                            !.value = NewAddr(H)]]

\* the seed correction left out
XorIntoSkipped(H, dst, src) == H

\* sL[j] ^= key.CWs[i].Seed[j], fss2020.go:259-262
XorInto(H, dst, src) == [H EXCEPT ![dst] = XorBytes(H[dst], H[src])]

\* vConverted.Add(vConverted, key.CWs[i].Value), fss2020.go:277-279, 298-300
AddCorrectionIntoKey(H, vConverted, cwValue) == BigAdd(H, cwValue, vConverted, cwValue)

AddCorrection(H, vConverted, cwValue) == BigAdd(H, vConverted, vConverted, cwValue)

\* if key.Party%2 == 1 { v.Neg(v) }, fss2020.go:281-283, 302-304, 325-327
NegForParty(H, party, v) == IF party % 2 = 1 THEN BigNeg(H, v, v) ELSE H

\* value.Add(value, vConverted) and, on the right branch only,
\* value.Mod(value, d.groupOrder): fss2020.go:285 and 306-307
Accumulate(d, H, value, vConverted, xi) ==
  IF xi = 0 THEN BigAdd(H, value, value, vConverted)
  ELSE BigModAt(BigAdd(H, value, value, vConverted), value, value, d.groupOrder)

\* one iteration of the level loop, fss2020.go:244-314, read from the
\* bottom: Expanded has the node, Converted the group element of the branch
\* taken, Stepped the heap after the accumulation
EvalLevel(d, c, H, L) ==
  LET i == L.i
      key == H[L.key]
      cw == H[H[key.CWs][i + 1]]
      active == L.tbits[i + 1] = 1
      xi == BitAt(L.x, L.n - i - 1)
      \* the objects of this iteration: sL, sR and vConverted
      sL == NewAddr(H)
      sR == sL + 1
      vConverted == sL + 2
      next == IF xi = 0 THEN sL ELSE sR
      \* fss2020.go:251-267
      Seeded(node) ==
        IF active
        THEN XorInto(XorInto(H \o << node.Seeds[left + 1], node.Seeds[right + 1] >>,
                             sL, cw.Seed), sR, cw.Seed)
        ELSE H \o << node.Seeds[left + 1], node.Seeds[right + 1] >>
      tNext(node) ==
        IF active THEN (node.TBits[xi + 1] + cw.TBits[xi + 1]) % 2 ELSE node.TBits[xi + 1]
      Corrected(H3) == IF active THEN AddCorrection(H3, vConverted, cw.Value) ELSE H3
      Stepped(node, H6) ==
        [H |-> H6,
         L |-> [L EXCEPT !.i = i + 1,
                         !.seeds = Append(@, next),
                         !.seedVals = Append(@, H6[next]),
                         !.tbits = Append(@, tNext(node))]]
      \* fss2020.go:270-313
      Converted(node, converted) ==
        IF converted.err # NoErr THEN EvalFail(Seeded(node), L, converted.err)
        ELSE Stepped(node,
                     Accumulate(d,
                                NegForParty(Corrected(Append(Seeded(node), converted.val)),
                                            key.Party, vConverted),
                                L.value, vConverted, xi))
      Expanded(node) ==
        IF node.err # NoErr THEN EvalFail(H, L, node.err)
        ELSE Converted(node, mapToGroupElement(d, node.Values[xi + 1]))
  IN Expanded(expandDCFNode(d, c, H[L.seeds[i + 1]]))

\* value.Mod(value, d.groupOrder) before the return, fss2020.go:331
ReduceFinalSkipped(d, H, value) == H

ReduceFinal(d, H, value) == BigModAt(H, value, value, d.groupOrder)

\* the final step, fss2020.go:316-333; the call returns the pointer `value`
EvalFinal(d, H, L) ==
  LET key == H[L.key]
      snConverted == NewAddr(H)
      Corrected(H1) ==
        IF L.tbits[L.n + 1] = 1
        THEN BigAdd(H1, snConverted, snConverted, key.FinalValue) ELSE H1
      Returned4(H4) ==
        [H |-> H4,
         L |-> [L EXCEPT !.pc = IF L.dkey = Nil THEN "done" ELSE "ddcf",
                         !.y = H4[L.value], !.yNil = FALSE]]
      Converted(converted) ==
        IF converted.err # NoErr THEN EvalFail(H, L, converted.err)
        ELSE Returned4(ReduceFinal(d,
                                   BigAdd(NegForParty(Corrected(Append(H, converted.val)),
                                                      key.Party, snConverted),
                                          L.value, L.value, snConverted),
                                   L.value))
  IN Converted(mapToGroupElement(d, H[L.seeds[L.n + 1]]))

(***************************************************************************)
(* DDCF (ddcf.go).                                                         *)
(***************************************************************************)
\* big.Int.Int64 followed by int(): the low bits of |v| with v's sign
Int64(v) ==
  LET lo == WrapInt((IF v < 0 THEN -v ELSE v) % 2^IntBits)
  IN IF v < 0 THEN WrapInt(-lo) ELSE lo

\* betaDiff := (beta0 - beta1) % int(d.groupOrder.Int64()), ddcf.go:15;
\* a zero divisor is Go's run-time panic "integer divide by zero"
BetaDiff(d, beta0, beta1) ==
  LET divisor == Int64(d.groupOrder)
  IN IF divisor = 0 THEN [panic |-> TRUE, val |-> 0]
     ELSE [panic |-> FALSE, val |-> GoRem(WrapInt(beta0 - beta1), divisor)]

\* s0 added where it is to be subtracted
ShareS1PlusS0(d, beta1, s0) == BigMod(beta1 + s0, d.groupOrder)

\* s1 := (b1 - s0) mod N, ddcf.go:27-28
ShareS1(d, beta1, s0) == BigMod(beta1 - s0, d.groupOrder)

\* GenerateDDCFKeys with rnd the seeds rand.Read returned and s0 the value
\* rand.Int returned; delta is the beta handed to GenerateKeys
GenerateDDCFKeys(d, c, n, alpha, beta0, beta1, rnd, s0) ==
  LET betaDiff == BetaDiff(d, beta0, beta1)
      \* ddcf.go:17-39, g what GenerateKeys returned
      Generated(g) ==
        IF g.err # NoErr
        THEN [g |-> g, delta |-> betaDiff.val, called |-> TRUE,
              dkey0 |-> Nil, dkey1 |-> Nil]
        ELSE
        LET a == NewAddr(g.heap)
        IN [g |-> [g EXCEPT !.heap = g.heap \o << s0, ShareS1(d, beta1, s0),
                                                  [DCFKey |-> g.key0, S |-> a],
                                                  [DCFKey |-> g.key1, S |-> a + 1] >>],
            delta |-> betaDiff.val, called |-> TRUE,
            dkey0 |-> a + 2, dkey1 |-> a + 3]
  IN IF betaDiff.panic
     THEN [g |-> GenFail("panic"), delta |-> Nil, called |-> FALSE,
           dkey0 |-> Nil, dkey1 |-> Nil]
     ELSE Generated(GenerateKeys(d, c, n, alpha, betaDiff.val, rnd))

\* y.Add(y, key.S); y.Mod(y, d.groupOrder), ddcf.go:48-49, on the pointer y
\* that Evaluate returned
AddShareIntoKey(d, H, y, S) == BigModAt(BigAdd(H, S, y, S), y, y, d.groupOrder)

AddShare(d, H, y, S) == BigModAt(BigAdd(H, y, y, S), y, y, d.groupOrder)

EvalDDCFFinish(d, H, L) ==
  LET Added(H1) == [H |-> H1, L |-> [L EXCEPT !.pc = "done", !.y = H1[L.value]]]
  IN Added(AddShare(d, H, L.value, H[L.dkey].S))

(***************************************************************************)
(* One step of a call, and a whole call.                                   *)
(***************************************************************************)
Step(d, c, H, L) ==
  IF L.pc = "loop"
  THEN IF L.i < L.n THEN EvalLevel(d, c, H, L) ELSE EvalFinal(d, H, L)
  ELSE EvalDDCFFinish(d, H, L)

RECURSIVE Run(_, _, _)
Run(d, c, r) == IF r.L.pc = "done" THEN r ELSE Run(d, c, Step(d, c, r.H, r.L))

\* Evaluate(key, x) to its return
Evaluate(d, c, h, key, x) == Run(d, c, EvalBegin(h, key, Nil, x))

\* EvaluateDDCF(key, x) to its return
EvaluateDDCF(d, c, h, dkey, x) == Run(d, c, EvalBegin(h, h[dkey].DCFKey, dkey, x))

\* what the caller keeps of a finished call: its objects are garbage
Returned(L) == [L EXCEPT !.tmp = << >>, !.seeds = << >>, !.value = Nil]

\* Reconstruct, fss2020.go:336-344
RECURSIVE Reconstruct(_, _)
Reconstruct(d, ys) ==
  IF Len(ys) = 0 THEN 0
  ELSE BigMod(Reconstruct(d, SubSeq(ys, 1, Len(ys) - 1)) + ys[Len(ys)], d.groupOrder)

(***************************************************************************)
(* The state machine.  A caller builds a scheme, generates one pair of     *)
(* keys and evaluates them; evaluator b is the party that holds key b, and *)
(* the two parties evaluate on one common input x.                         *)
(***************************************************************************)
Parties == 0..(partyNum - 1)

NoKeys == [key0 |-> Nil, key1 |-> Nil, dkey0 |-> Nil, dkey1 |-> Nil]
NoGen ==
  [op |-> "none", n |-> 0, alpha |-> 0, beta |-> 0, beta0 |-> 0, beta1 |-> 0,
   delta |-> 0, called |-> FALSE, err |-> NoErr]
NoMut == [party |-> -1, field |-> "none", level |-> 0, count |-> 0, other |-> << >>]
NoConv == [op |-> "none", input |-> << >>, err |-> NoErr, val |-> Nil]

\* the inputs the calls are given
Betas == {-MaxBeta, 0, MaxBeta}
RandSeeds(d) == [1..(d.lambdaInBits \div 8) -> {0, MaxRand}]
\* widths: those keys are made for, and the width of a Go int
Depths == (1..MaxN) \cup {IntBits}
\* x from one below the domain of width n to one above it
XChoices(n) ==
  IF n < 1 THEN {}
  ELSE { x \in IntRange : x >= -(2^(n - 1)) - 1 /\ x <= 2^(n - 1) }

\* len(key.CWs) of the caller's keys
KeyDepth == IF keys.key0 = Nil THEN 0 ELSE Len(heap[heap[keys.key0].CWs])

KeyOf(b) == IF b = 0 THEN keys.key0 ELSE keys.key1
DKeyOf(b) == IF b = 0 THEN keys.dkey0 ELSE keys.dkey1

InitWith(schemes, ciphers) ==
  /\ scheme \in schemes
  /\ cipher \in ciphers
  /\ heap = << >>
  /\ keys = NoKeys
  /\ gen = NoGen
  /\ ev = [b \in Parties |-> Idle]
  /\ mut = NoMut
  /\ conv = NoConv

\* key0, key1, err := d.GenerateKeys(n, alpha, beta)
GenerateKeysCall(n, alpha, beta, rnd) ==
  LET Return(g) ==
        /\ heap' = g.heap
        /\ keys' = [NoKeys EXCEPT !.key0 = g.key0, !.key1 = g.key1]
        /\ gen' = [NoGen EXCEPT !.op = "GenerateKeys", !.n = n, !.alpha = alpha,
                                !.beta = beta, !.err = g.err]
  IN /\ gen.op = "none"
     /\ Return(GenerateKeys(scheme, cipher, n, alpha, beta, rnd))
     /\ UNCHANGED <<scheme, cipher, ev, mut, conv>>

\* the other party has not evaluated yet, or has evaluated on x
CommonInput(b, x) == ev[1 - b].pc = "idle" \/ ev[1 - b].xin = x

\* the caller has the call's result; the objects the call made are garbage
Return(b, r) ==
  /\ ev' = [ev EXCEPT ![b] = Returned(r.L)]
  /\ heap' = SubSeq(r.H, 1, Len(heap))

\* y, err := d.Evaluate(key_b, x), the one call evaluator b makes
EvaluateCall(b, x) ==
  /\ ev[b].pc = "idle"
  /\ CommonInput(b, x)
  /\ KeyOf(b) # Nil
  /\ DKeyOf(b) = Nil
  /\ Return(b, Evaluate(scheme, cipher, heap, KeyOf(b), x))
  /\ UNCHANGED <<scheme, cipher, keys, gen, mut, conv>>

ValidSchemes == { NewDCFScheme(8, 2^k) : k \in 0..MaxK }

Ciphers == {0, MaxCipher}

Init == InitWith(ValidSchemes, Ciphers)

Next ==
  \/ \E n \in Depths, alpha \in IntRange, beta \in Betas, rnd \in RandSeeds(scheme) \X RandSeeds(scheme) :
       GenerateKeysCall(n, alpha, beta, rnd)
  \/ \E b \in Parties, x \in XChoices(KeyDepth) : EvaluateCall(b, x)

Spec == Init /\ [][Next]_vars

(***************************************************************************)
(* Claims about DCF generation and evaluation, checked under Spec.         *)
(***************************************************************************)
\* both parties have evaluated their keys of one GenerateKeys call on one x
BothEvaluated ==
  /\ gen.op = "GenerateKeys" /\ gen.err = NoErr
  /\ \A b \in Parties : ev[b].pc = "done" /\ ev[b].err = NoErr
  /\ ev[0].xin = ev[1].xin

\* C1: the shares of both keys of one GenerateKeys(n, alpha, beta) call on the
\* same x reconstruct to beta mod N when x < alpha and to 0 when x >= alpha
DCFCorrect ==
  BothEvaluated =>
    Reconstruct(scheme, << ev[0].y, ev[1].y >>) =
      IF ev[0].xin < gen.alpha THEN gen.beta % scheme.groupOrder ELSE 0

\* both shares are there for an x below alpha and a beta that is not 0 mod N
DCFCorrectWitness ==
  /\ BothEvaluated
  /\ gen.n = MaxN
  /\ ev[0].xin < gen.alpha
  /\ gen.beta % scheme.groupOrder # 0
  /\ ev[0].y # 0

\* the remapped alpha, and the first j bits (most significant first) of a
\* remapped value of width n
Remapped(n, v) == v + 2^(n - 1)
Prefix(n, v, j) == v \div 2^(n - j)

\* C3 as stated: at every level i < n the control bits of the two parties
\* differ exactly when x and alpha agree on their first i+1 bits
OnPathNextPrefix ==
  BothEvaluated =>
    \A i \in 0..(gen.n - 1) :
      ((ev[0].tbits[i + 1] + ev[1].tbits[i + 1]) % 2 = 1)
        <=> (Prefix(gen.n, ev[0].x, i + 1)
               = Prefix(gen.n, Remapped(gen.n, gen.alpha), i + 1))

\* C3 as the code has it: t_b[i] is the bit held after i bits of x have been
\* consumed (t_b[0] = b), and for every i in 0..n the bits differ exactly when
\* x and alpha agree on their first i bits
OnPathPrefix ==
  BothEvaluated =>
    \A i \in 0..gen.n :
      ((ev[0].tbits[i + 1] + ev[1].tbits[i + 1]) % 2 = 1)
        <=> (Prefix(gen.n, ev[0].x, i) = Prefix(gen.n, Remapped(gen.n, gen.alpha), i))

\* an evaluation that leaves alpha's path at the second bit
OnPathWitness ==
  /\ BothEvaluated
  /\ gen.n >= 2
  /\ Prefix(gen.n, ev[0].x, 1) = Prefix(gen.n, Remapped(gen.n, gen.alpha), 1)
  /\ Prefix(gen.n, ev[0].x, 2) # Prefix(gen.n, Remapped(gen.n, gen.alpha), 2)
  /\ ev[0].tbits[2] # ev[1].tbits[2]
  /\ ev[0].tbits[3] = ev[1].tbits[3]

InDomain(n, v) == v >= -(2^(n - 1)) /\ v <= 2^(n - 1) - 1

\* C4: GenerateKeys fails, with no key, exactly when alpha is outside
\* [-2^(n-1), 2^(n-1)-1]; Evaluate fails, with no value, exactly when x is
\* outside it; an error never comes with a key
RangeErrors ==
  /\ gen.op = "GenerateKeys" =>
       /\ (gen.err # NoErr) <=> ~InDomain(gen.n, gen.alpha)
       /\ (gen.err # NoErr) <=> (keys.key0 = Nil /\ keys.key1 = Nil)
       /\ (gen.err = NoErr) <=> (keys.key0 # Nil /\ keys.key1 # Nil)
  /\ \A b \in Parties : ev[b].pc = "done" =>
       /\ (ev[b].err # NoErr) <=> ~InDomain(gen.n, ev[b].xin)
       /\ (ev[b].err # NoErr) <=> ev[b].yNil

(***************************************************************************)
(* SpecDDCF: the DDCF layer.  Group orders 2^k up to the width of a Go     *)
(* int, where ddcf.go:15 converts the order to an int.                     *)
(***************************************************************************)
\* the values rand.Int(rand.Reader, N) may return: the ends of [0, N)
Shares(d) == IF d.groupOrder >= 1 THEN {0, d.groupOrder - 1} ELSE {0}

\* key0, key1, err := d.GenerateDDCFKeys(n, alpha, beta0, beta1)
GenerateDDCFKeysCall(n, alpha, beta0, beta1, rnd, s0) ==
  LET ReturnDDCF(r) ==
        /\ heap' = r.g.heap
        /\ keys' = [key0 |-> r.g.key0, key1 |-> r.g.key1,
                    dkey0 |-> r.dkey0, dkey1 |-> r.dkey1]
        /\ gen' = [NoGen EXCEPT !.op = "GenerateDDCFKeys", !.n = n, !.alpha = alpha,
                                !.beta0 = beta0, !.beta1 = beta1,
                                !.delta = r.delta, !.called = r.called,
                                !.err = r.g.err]
  IN /\ gen.op = "none"
     /\ ReturnDDCF(GenerateDDCFKeys(scheme, cipher, n, alpha, beta0, beta1, rnd, s0))
     /\ UNCHANGED <<scheme, cipher, ev, mut, conv>>

\* y, err := d.EvaluateDDCF(ddcfKey_b, x), the one call evaluator b makes
EvaluateDDCFCall(b, x) ==
  /\ ev[b].pc = "idle"
  /\ CommonInput(b, x)
  /\ DKeyOf(b) # Nil
  /\ Return(b, EvaluateDDCF(scheme, cipher, heap, DKeyOf(b), x))
  /\ UNCHANGED <<scheme, cipher, keys, gen, mut, conv>>

DDCFSchemes == { NewDCFScheme(8, 2^k) : k \in (0..MaxK) \cup {IntBits - 1, IntBits} }

InitDDCF == InitWith(DDCFSchemes, {0})

NextDDCF ==
  \/ \E n \in 1..MaxN, beta0 \in Betas, beta1 \in Betas, s0 \in Shares(scheme) :
       \E alpha \in XChoices(n) :
         GenerateDDCFKeysCall(n, alpha, beta0, beta1, << << 0 >>, << MaxRand >> >>, s0)
  \/ \E b \in Parties, x \in XChoices(KeyDepth) : EvaluateDDCFCall(b, x)

SpecDDCF == InitDDCF /\ [][NextDDCF]_vars

BothEvaluatedDDCF ==
  /\ gen.op = "GenerateDDCFKeys" /\ gen.err = NoErr
  /\ \A b \in Parties : ev[b].pc = "done" /\ ev[b].err = NoErr
  /\ ev[0].xin = ev[1].xin

\* C2: the shares of both keys of one GenerateDDCFKeys(n, alpha, beta0, beta1)
\* call on the same x reconstruct to beta0 mod N when x < alpha and to
\* beta1 mod N when x >= alpha
DDCFCorrect ==
  BothEvaluatedDDCF =>
    Reconstruct(scheme, << ev[0].y, ev[1].y >>) =
      IF ev[0].xin < gen.alpha THEN gen.beta0 % scheme.groupOrder
      ELSE gen.beta1 % scheme.groupOrder

\* both shares are there for beta0 < beta1, a nonzero S0 and an x at or above alpha
DDCFCorrectWitness ==
  /\ BothEvaluatedDDCF
  /\ gen.n = MaxN
  /\ gen.beta0 < gen.beta1
  /\ ev[0].xin >= gen.alpha
  /\ heap[heap[keys.dkey0].S] # 0
  /\ gen.beta1 % scheme.groupOrder # 0
  /\ gen.beta0 % scheme.groupOrder # gen.beta1 % scheme.groupOrder

Supported(d) == isPowerOfTwo(d.groupOrder) /\ BitLen(d.groupOrder) - 1 <= d.lambdaInBits

\* C8: on a supported group GenerateDDCFKeys gets past the conversion of N to
\* an int and hands GenerateKeys the representative of beta0 - beta1 in [0, N)
DeltaReduced ==
  (gen.op = "GenerateDDCFKeys" /\ Supported(scheme)) =>
    /\ gen.called
    /\ gen.delta = (gen.beta0 - gen.beta1) % scheme.groupOrder

(***************************************************************************)
(* SpecGroup: schemes NewDCFScheme accepted although the group order is    *)
(* not a power of two or is wider than lambda.  The keys a call of         *)
(* Evaluate or EvaluateDDCF needs were made by a scheme of order 2.        *)
(***************************************************************************)
UnsupportedOrders == {-4, -1, 0, 3, 6, 3 * 2^IntBits, 2^9}

DomainOf(n) ==
  IF n < 1 THEN {}
  ELSE { v \in IntRange : v >= -(2^(n - 1)) /\ v <= 2^(n - 1) - 1 }

\* keys of depth n made beforehand: DCF keys, or DDCF keys
MadeBefore(c, n, ddcfKeys) ==
  LET d == NewDCFScheme(8, 2)
      rnd == << << 0 >>, << MaxRand >> >>
      MadeDDCF(r) ==
        [heap |-> r.g.heap,
         keys |-> [key0 |-> r.g.key0, key1 |-> r.g.key1,
                   dkey0 |-> r.dkey0, dkey1 |-> r.dkey1]]
      Made(g) ==
        [heap |-> g.heap, keys |-> [NoKeys EXCEPT !.key0 = g.key0, !.key1 = g.key1]]
  IN IF ddcfKeys THEN MadeDDCF(GenerateDDCFKeys(d, c, n, 0, 1, 0, rnd, 1))
     ELSE Made(GenerateKeys(d, c, n, 0, 1, rnd))

\* the caller holds the keys made
Holds(made) == heap = made.heap /\ keys = made.keys

InitGroup ==
  /\ scheme \in { NewDCFScheme(8, N) : N \in UnsupportedOrders }
  /\ cipher \in Ciphers
  /\ \E n \in 1..MaxN, ddcfKeys \in BOOLEAN : Holds(MadeBefore(cipher, n, ddcfKeys))
  /\ gen = NoGen
  /\ ev = [b \in Parties |-> Idle]
  /\ mut = NoMut
  /\ conv = NoConv

\* every argument is valid: n >= 1, alpha and x in the domain
NextGroup ==
  \/ \E n \in 1..MaxN, beta \in Betas : \E alpha \in DomainOf(n) :
       GenerateKeysCall(n, alpha, beta, << << 0 >>, << MaxRand >> >>)
  \/ \E n \in 1..MaxN, beta0 \in Betas, beta1 \in Betas : \E alpha \in DomainOf(n) :
       GenerateDDCFKeysCall(n, alpha, beta0, beta1, << << 0 >>, << MaxRand >> >>, 0)
  \/ \E b \in Parties, x \in DomainOf(KeyDepth) : EvaluateCall(b, x)
  \/ \E b \in Parties, x \in DomainOf(KeyDepth) : EvaluateDDCFCall(b, x)

SpecGroup == InitGroup /\ [][NextGroup]_vars

\* C5: on a group order that is not a positive power of two, or is wider than
\* lambda, a first call of GenerateKeys, GenerateDDCFKeys, Evaluate or
\* EvaluateDDCF with valid arguments returns UnsupportedGroup, no key, no value
UnsupportedGroupSurfaces ==
  /\ gen.op # "none" =>
       /\ gen.err = "UnsupportedGroup"
       /\ keys = NoKeys
  /\ \A b \in Parties : ev[b].pc = "done" =>
       /\ ev[b].err = "UnsupportedGroup"
       /\ ev[b].yNil

(***************************************************************************)
(* SpecConvert: mapToGroupElement on its own, for lambda of one to         *)
(* MaxLambdaBytes bytes, every order 2^k with k <= lambda, and blocks of   *)
(* every length up to one byte more than the longest lambda.               *)
(***************************************************************************)
ByteSamples == {0, 1, 127, 128, 165, 255}

RECURSIVE BlocksOfLen(_)
BlocksOfLen(m) ==
  IF m = 0 THEN { << >> }
  ELSE { Append(b, v) : b \in BlocksOfLen(m - 1), v \in ByteSamples }

Blocks == UNION { BlocksOfLen(m) : m \in 0..(MaxLambdaBytes + 1) }

ConvertSchemes ==
  UNION { { NewDCFScheme(8 * m, 2^k) : k \in 0..(8 * m) } : m \in 1..MaxLambdaBytes }

InitConvert == InitWith(ConvertSchemes, {0})

\* output, err := d.mapToGroupElement(input)
MapToGroupElementCall(input) ==
  LET ReturnConverted(r) ==
        conv' = [op |-> "called", input |-> input, err |-> r.err, val |-> r.val]
  IN /\ conv.op = "none"
     /\ ReturnConverted(mapToGroupElement(scheme, input))
     /\ UNCHANGED <<scheme, cipher, heap, keys, gen, ev, mut>>

NextConvert == \E input \in Blocks : MapToGroupElementCall(input)

SpecConvert == InitConvert /\ [][NextConvert]_vars

\* bit j (from 1, most significant bit of the first byte first) of a block
BlockBit(block, j) == (block[((j - 1) \div 8) + 1] \div 2^(7 - ((j - 1) % 8))) % 2

\* the integer whose binary digits are the first k bits of the block
RECURSIVE FirstBits(_, _)
FirstBits(block, k) ==
  IF k = 0 THEN 0 ELSE 2 * FirstBits(block, k - 1) + BlockBit(block, k)

\* C10: for N = 2^k, k <= lambda, a block of lambda/8 bytes converts to the
\* integer made of its first k bits, which is in [0, N) and has the block's
\* first bit on top; a block of another length gives InvalidLength
ConvertTopBits ==
  conv.op = "called" =>
    LET k == BitLen(scheme.groupOrder) - 1
    IN IF Len(conv.input) = scheme.lambdaInBits \div 8
       THEN /\ conv.err = NoErr
            /\ conv.val = FirstBits(conv.input, k)
            /\ conv.val >= 0 /\ conv.val < scheme.groupOrder
            /\ k >= 1 => conv.val \div 2^(k - 1) = conv.input[1] \div 128
       ELSE conv.err = "InvalidLength"

\* a block of the right length whose first k bits and last k bits differ
ConvertTopBitsWitness ==
  /\ conv.op = "called"
  /\ conv.err = NoErr
  /\ scheme.lambdaInBits = 8 * MaxLambdaBytes
  /\ BitLen(scheme.groupOrder) - 1 = 3
  /\ conv.input[1] = 165
  /\ conv.val = 5

(***************************************************************************)
(* SpecMut: the caller writes into the keys GenerateKeys returned, through *)
(* the pointers the keys hold, and then one party evaluates its key.       *)
(***************************************************************************)
\* a key with everything it points at, by value
DeepKey(h, k) ==
  LET key == h[k]
  IN [Party |-> key.Party,
      Seed |-> h[key.Seed],
      CWs |-> [i \in 1..Len(h[key.CWs]) |->
                 LET cw == h[h[key.CWs][i]]
                 IN [Seed |-> h[cw.Seed], Value |-> h[cw.Value], TBits |-> cw.TBits]],
      FinalValue |-> h[key.FinalValue]]

\* the addresses of the objects a key is made of
Storage(h, k) ==
  LET key == h[k]
      words == { h[key.CWs][i] : i \in 1..Len(h[key.CWs]) }
  IN {k, key.Seed, key.CWs, key.FinalValue}
       \cup words
       \cup { h[w].Seed : w \in words } \cup { h[w].Value : w \in words }

MutFields == {"Seed", "CW.Seed", "CW.Value", "CW.TBits", "FinalValue"}
\* the big.Int values written: one negative, one above every group order
MutValues == {-5, 2^(MaxK + 1) + 1}

\* key_b.Seed[0] = 255, key_b.CWs[i].Seed[0] = 255, key_b.CWs[i].Value.SetInt64(v),
\* key_b.CWs[i].TBits[left] ^= 1, key_b.FinalValue.SetInt64(v)
MutateKey(b, field, i, v) ==
  /\ KeyOf(b) # Nil
  /\ mut.count < MaxMut
  /\ \A p \in Parties : ev[p].pc = "idle"
  /\ i < KeyDepth
  /\ LET key == heap[KeyOf(b)]
         w == heap[key.CWs][i + 1]
         cw == heap[w]
     IN heap' =
          CASE field = "Seed" -> [heap EXCEPT ![key.Seed][1] = 255]
            [] field = "CW.Seed" -> [heap EXCEPT ![cw.Seed][1] = 255]
            [] field = "CW.Value" -> [heap EXCEPT ![cw.Value] = v]
            [] field = "CW.TBits" -> [heap EXCEPT ![w].TBits[left + 1] = 1 - @]
            [] OTHER -> [heap EXCEPT ![key.FinalValue] = v]
  /\ mut' = [party |-> b, field |-> field, level |-> i, count |-> mut.count + 1,
             other |-> DeepKey(heap, KeyOf(1 - b))]
  /\ UNCHANGED <<scheme, cipher, keys, gen, ev, conv>>

\* the one evaluation of the behaviour
EvaluateAlone(b, x) ==
  /\ ev[1 - b].pc = "idle"
  /\ EvaluateCall(b, x)

InitMut == InitWith({NewDCFScheme(8, 2^(MaxK - 1)), NewDCFScheme(8, 2^MaxK)}, {0})

NextMut ==
  \/ \E n \in 1..MaxN, alpha \in {-1, 0} :
       GenerateKeysCall(n, alpha, MaxBeta, << << 0 >>, << MaxRand >> >>)
  \/ \E b \in Parties, field \in MutFields, i \in 0..(MaxN - 1), v \in MutValues :
       MutateKey(b, field, i, v)
  \/ \E b \in Parties, x \in DomainOf(KeyDepth) : EvaluateAlone(b, x)

SpecMut == InitMut /\ [][NextMut]_vars

\* C6: the keys of one GenerateKeys call have n correction words each, equal
\* by value at every level, and equal FinalValue; they differ in Party; no
\* object belongs to both; a write into one key leaves the other as it was
KeysIndependent ==
  (gen.op = "GenerateKeys" /\ gen.err = NoErr) =>
    LET k0 == DeepKey(heap, keys.key0)
        k1 == DeepKey(heap, keys.key1)
    IN /\ Len(k0.CWs) = gen.n /\ Len(k1.CWs) = gen.n
       /\ k0.Party = 0 /\ k1.Party = 1
       /\ mut.count = 0 => (k0.CWs = k1.CWs /\ k0.FinalValue = k1.FinalValue)
       /\ Storage(heap, keys.key0) \cap Storage(heap, keys.key1) = {}
       /\ mut.count > 0 => DeepKey(heap, KeyOf(1 - mut.party)) = mut.other

\* a correction value of key0 was overwritten and key1 still has the old one
KeysIndependentWitness ==
  /\ gen.op = "GenerateKeys" /\ gen.err = NoErr /\ gen.n = MaxN
  /\ mut.party = 0 /\ mut.field = "CW.Value" /\ mut.level = MaxN - 1
  /\ DeepKey(heap, keys.key0).CWs[MaxN].Value # DeepKey(heap, keys.key1).CWs[MaxN].Value
  /\ DeepKey(heap, keys.key1) = mut.other

\* the evaluation of section 4.4 that reduces the accumulator after every
\* step, on a key given by value: R holds the seed s, the bit t and V
RefLevel(d, c, kv, n, x, i, R) ==
  LET node == expandDCFNode(d, c, R.s)
      cw == kv.CWs[i + 1]
      dir == BitAt(x, n - i - 1)
      sd == IF R.t = 1 THEN XorBytes(node.Seeds[dir + 1], cw.Seed) ELSE node.Seeds[dir + 1]
      td == IF R.t = 1 THEN (node.TBits[dir + 1] + cw.TBits[dir + 1]) % 2
            ELSE node.TBits[dir + 1]
      u == mapToGroupElement(d, node.Values[dir + 1]).val + (IF R.t = 1 THEN cw.Value ELSE 0)
  IN [s |-> sd, t |-> td,
      V |-> (R.V + (IF kv.Party = 1 THEN -u ELSE u)) % d.groupOrder]

RECURSIVE RefLoop(_, _, _, _, _, _, _)
RefLoop(d, c, kv, n, x, i, R) ==
  IF i = n THEN R ELSE RefLoop(d, c, kv, n, x, i + 1, RefLevel(d, c, kv, n, x, i, R))

RefEvaluate(d, c, kv, x) ==
  LET n == Len(kv.CWs)
      R == RefLoop(d, c, kv, n, x, 0, [s |-> kv.Seed, t |-> kv.Party, V |-> 0])
      w == mapToGroupElement(d, R.s).val + (IF R.t = 1 THEN kv.FinalValue ELSE 0)
  IN (R.V + (IF kv.Party = 1 THEN -w ELSE w)) % d.groupOrder

\* C9: Evaluate, which reduces after a right step and at the end only,
\* returns what the evaluation reducing after every step returns, in [0, N)
ReductionCadence ==
  \A b \in Parties :
    (ev[b].pc = "done" /\ ev[b].err = NoErr) =>
      /\ ev[b].y = RefEvaluate(scheme, cipher, DeepKey(heap, KeyOf(b)), ev[b].x)
      /\ ev[b].y >= 0 /\ ev[b].y < scheme.groupOrder

\* party 1 went left at the first level with a negative correction value
\* written into its key, and returned a nonzero share
ReductionCadenceWitness ==
  /\ ev[1].pc = "done" /\ ev[1].err = NoErr
  /\ gen.n = MaxN
  /\ mut.party = 1 /\ mut.field = "CW.Value" /\ mut.level = 0
  /\ heap[heap[heap[heap[keys.key1].CWs][1]].Value] < 0
  /\ BitAt(ev[1].x, gen.n - 1) = 0
  /\ ev[1].y # 0

(***************************************************************************)
(* SpecConc: two threads evaluate one shared key, a statement group of the *)
(* code at a time.  The objects a call allocates are its own (ev[e].tmp,   *)
(* addressed after the heap); the key's objects are in the heap, which     *)
(* both threads reach.                                                     *)
(***************************************************************************)
Threads == Parties

\* what thread e sees: the heap and the objects of its call
View(e) == heap \o ev[e].tmp

\* the step's result put back: the shared objects, and the call's own
PutBack(e, r) ==
  /\ heap' = SubSeq(r.H, 1, Len(heap))
  /\ ev' = [ev EXCEPT ![e] =
              IF r.L.pc = "done" THEN Returned(r.L)
              ELSE [r.L EXCEPT !.tmp = SubSeq(r.H, Len(heap) + 1, Len(r.H))]]

\* the other thread works on the same key, or has not started
SameKey(e, key, dkey) ==
  ev[1 - e].pc = "idle" \/ (ev[1 - e].key = key /\ ev[1 - e].dkey = dkey)

\* thread e enters Evaluate(key_b, x), or EvaluateDDCF(ddcfKey_b, x) when ddcf
EvalStart(e, ddcf, b, x) ==
  /\ ev[e].pc \in {"idle", "done"}
  /\ DKeyOf(b) # Nil
  /\ LET dkey == IF ddcf THEN DKeyOf(b) ELSE Nil
     IN /\ SameKey(e, KeyOf(b), dkey)
        /\ PutBack(e, EvalBegin(heap, KeyOf(b), dkey, x))
  /\ UNCHANGED <<scheme, cipher, keys, gen, mut, conv>>

\* thread e runs one iteration of the loop, the final step, or the DDCF step
EvalStep(e) ==
  /\ ev[e].pc \in {"loop", "ddcf"}
  /\ PutBack(e, Step(scheme, cipher, View(e), ev[e]))
  /\ UNCHANGED <<scheme, cipher, keys, gen, mut, conv>>

InitConc == InitWith({NewDCFScheme(8, 2^MaxK)}, {0})

NextConc ==
  \/ \E n \in 1..MaxN, s0 \in Shares(scheme) :
       GenerateDDCFKeysCall(n, 0, MaxBeta, -MaxBeta, << << 0 >>, << MaxRand >> >>, s0)
  \/ \E e \in Threads, ddcf \in BOOLEAN, b \in Parties, x \in XChoices(KeyDepth) :
       EvalStart(e, ddcf, b, x)
  \/ \E e \in Threads : EvalStep(e)

SpecConc == InitConc /\ [][NextConc]_vars

\* what the call of thread e returns when nothing else runs
Alone(h, L) ==
  IF L.dkey = Nil THEN Evaluate(scheme, cipher, h, L.key, L.xin).L
  ELSE EvaluateDDCF(scheme, cipher, h, L.dkey, L.xin).L

\* C7: no step of an evaluation changes an object of the key, whether the
\* call succeeds or fails, and every call that has returned, however the two
\* threads were interleaved and however often it was repeated, returned the
\* value and the error of the same call run alone
KeysReadOnly ==
  [][gen.op # "none" =>
       /\ heap' = heap
       /\ \A e \in Threads :
            ev'[e].pc = "done" =>
              LET a == Alone(heap', ev'[e])
              IN /\ ev'[e].y = a.y
                 /\ ev'[e].err = a.err
                 /\ ev'[e].yNil = a.yNil]_vars

\* thread 0 has returned a DDCF share of party 1's key while thread 1 is past
\* the first level of another x on the same key
KeysReadOnlyWitness ==
  /\ ev[0].pc = "done" /\ ev[0].err = NoErr /\ ev[0].dkey = keys.dkey1
  /\ ev[1].pc = "loop" /\ ev[1].i >= 1 /\ ev[1].dkey = keys.dkey1
  /\ ev[1].xin # ev[0].xin
  /\ gen.n = MaxN
  /\ heap[heap[keys.dkey1].S] # 0

(***************************************************************************)
(* Off-path collapse, checked under Spec on the seeds (seedVals) and       *)
(* control bits (tbits) the two evaluations went through.                  *)
(***************************************************************************)
\* x and alpha agree on their first j bits
OnPath(j) == Prefix(gen.n, ev[0].x, j) = Prefix(gen.n, Remapped(gen.n, gen.alpha), j)

\* what party b adds to its share at level j < n, from the seed and the
\* control bit it holds after j bits of x
LevelContribution(b, j) ==
  LET node == expandDCFNode(scheme, cipher, ev[b].seedVals[j + 1])
      dir == BitAt(ev[b].x, gen.n - j - 1)
      cw == DeepKey(heap, KeyOf(b)).CWs[j + 1]
      u == mapToGroupElement(scheme, node.Values[dir + 1]).val
             + (IF ev[b].tbits[j + 1] = 1 THEN cw.Value ELSE 0)
  IN IF b = 1 THEN -u ELSE u

\* what party b adds at the final step
FinalContribution(b) ==
  LET w == mapToGroupElement(scheme, ev[b].seedVals[gen.n + 1]).val
             + (IF ev[b].tbits[gen.n + 1] = 1 THEN DeepKey(heap, KeyOf(b)).FinalValue ELSE 0)
  IN IF b = 1 THEN -w ELSE w

\* C11: with s_b[j], t_b[j] the seed and control bit of party b after j bits
\* of the common x (0 <= j <= n): while x and alpha agree on the first j bits
\* the control bits differ; once they disagree, at that j and every later
\* one, the seeds are equal and the control bits are equal, and what the two
\* parties add there (level j < n, or the final step at j = n) sums to 0 mod N
OffPathCollapse ==
  BothEvaluated =>
    \A j \in 0..gen.n :
      IF OnPath(j)
      THEN ev[0].tbits[j + 1] # ev[1].tbits[j + 1]
      ELSE /\ ev[0].seedVals[j + 1] = ev[1].seedVals[j + 1]
           /\ ev[0].tbits[j + 1] = ev[1].tbits[j + 1]
           /\ j < gen.n =>
                (LevelContribution(0, j) + LevelContribution(1, j)) % scheme.groupOrder = 0
           /\ j = gen.n =>
                (FinalContribution(0) + FinalContribution(1)) % scheme.groupOrder = 0

\* x leaves alpha's path at its first bit; from there both parties hold one
\* seed and a set control bit, so both apply the correction words, and the
\* initial seeds were different
OffPathCollapseWitness ==
  /\ BothEvaluated
  /\ gen.n = MaxN
  /\ ~OnPath(1)
  /\ ev[0].seedVals[1] # ev[1].seedVals[1]
  /\ \A j \in 1..gen.n :
       /\ ev[0].seedVals[j + 1] = ev[1].seedVals[j + 1]
       /\ ev[0].tbits[j + 1] = ev[1].tbits[j + 1]
  /\ ev[0].tbits[2] = 1
  /\ scheme.groupOrder > 1
  /\ LevelContribution(0, 1) % scheme.groupOrder # 0

====
